---- MODULE Spec2Model ----
(***************************************************************************)
(* forb: a form-validation helper for React.                               *)
(*                                                                         *)
(*   useForb()   the coordinator: a validity flag (_isValid), an event     *)
(*               emitter (_control), validate() and register().           *)
(*   _ForbField  the field binding: an errorMessage state and an effect    *)
(*               that subscribes a listener to the emitter's "validate"    *)
(*               event.                                                    *)
(*   validator() the rule evaluator, and the catalog of Validator classes. *)
(*                                                                         *)
(* Spec      is the coordinator with its field bindings: the commits of    *)
(*           React, the effects it runs after them, and validate(), over   *)
(*           validators that return.                                       *)
(* SpecThrow is the same over validators of which some throw.              *)
(* SpecEval  is the rule evaluator applied to bounded values and rules.    *)
(* SpecForm  is the form of the README.                                    *)
(***************************************************************************)
EXTENDS Integers, Sequences, FiniteSets, TLC

(***************************************************************************)
(* Bounds of the model.                                                    *)
(***************************************************************************)
\* number of fields the form can register
NumFields == 2
\* longest string value
MaxLen == 3
\* longest rule list
MaxRules == 2
\* number of times the function returned by validator() is called
MaxCalls == 2

Fields == 1..NumFields

\* cap on the emitter's listener array: one listener a field, and one more
MaxListeners == NumFields + 1

(***************************************************************************)
(* JavaScript values: null, a string (a sequence of characters), a         *)
(* function, and the abrupt completion of a call that throws.              *)
(***************************************************************************)
Null == [kind |-> "null"]

Str(s) == [kind |-> "string", chars |-> s]

Thrown == [kind |-> "throw"]

\* ToBoolean: null and the empty string are falsy, a non-empty string and
\* a function are truthy.
Truthy(x) ==
  CASE x.kind = "null" -> FALSE
    [] x.kind = "string" -> Len(x.chars) > 0
    [] OTHER -> TRUE

\* What a caller-supplied field validator can do when it is called.
Outcomes == {Null, Str(<<>>), Str(<<"E">>), Thrown}

\* The validators that return, and those of a form in which a validator
\* throws.
Returning == Outcomes \ {Thrown}

Throwing == Outcomes \ {Str(<<>>)}

VARIABLES
  isValid,       \* _isValid.current
  listeners,     \* _control.current: the listener array of the "validate" event
  formMounted,   \* the component that called useForb is in the tree
  formEffect,    \* useForb's effect is active (its cleanup has not run)
  mounted,       \* mounted[f]: field f's _ForbField is mounted
  cur,           \* cur[f]: the validator closure of f's latest committed render
  sub,           \* sub[f]: the closure around which f's effect has subscribed a listener
  errorMessage,  \* errorMessage[f]: f's errorMessage state
  ret,           \* outcome of the latest validate() call
  refs,          \* refs[f]: the current value of field f's input, held in a ref
  pass,          \* the latest step, when it was a validate() call: the listeners it
                 \* invoked, in order, the flag after each of them, the outcome
                 \* of the call before it, and the fields whose message it cleared
  value,         \* evaluator: the value passed to validator()
  rules,         \* evaluator: the Validator instances passed to validator()
  fn,            \* evaluator: the function validator() returned
  result,        \* evaluator: what the latest call of fn returned
  calls,         \* evaluator: number of calls of fn
  checks         \* evaluator: number of calls of a rule's validate(value) so far

coordVars == <<isValid, listeners, formMounted, formEffect, mounted, cur, sub,
               errorMessage, ret, refs, pass>>
evalVars == <<value, rules, fn, result, calls, checks>>
vars == <<isValid, listeners, formMounted, formEffect, mounted, cur, sub,
          errorMessage, ret, refs, pass, value, rules, fn, result, calls, checks>>

NoFn == [kind |-> "undefined"]

\* No broadcast ran in the latest step.
NoPass == [ran |-> FALSE, invoked |-> <<>>, flags |-> <<>>, prev |-> TRUE, cleared |-> {}]

(***************************************************************************)
(* Strings.  Values are null or strings of at most MaxLen characters over  *)
(* an alphabet of two digits, the sign, the space and the at-sign.         *)
(***************************************************************************)
Chars == {"1", "5", "-", " ", "@"}

Strings == UNION {[1..k -> Chars] : k \in 0..MaxLen}

Values == {Null} \cup {Str(s) : s \in Strings}

IsWhiteSpace(c) == c = " "

DigitValue == [c \in {"0", "1", "2", "3", "4", "5", "6", "7", "8", "9"} |->
                 CASE c = "0" -> 0 [] c = "1" -> 1 [] c = "2" -> 2 [] c = "3" -> 3
                   [] c = "4" -> 4 [] c = "5" -> 5 [] c = "6" -> 6 [] c = "7" -> 7
                   [] c = "8" -> 8 [] c = "9" -> 9]

IsDigit(c) == c \in DOMAIN DigitValue

\* String.prototype.trim
RECURSIVE TrimStart(_)
TrimStart(s) == IF Len(s) > 0 /\ IsWhiteSpace(s[1]) THEN TrimStart(Tail(s)) ELSE s

RECURSIVE TrimEnd(_)
TrimEnd(s) ==
  IF Len(s) > 0 /\ IsWhiteSpace(s[Len(s)]) THEN TrimEnd(SubSeq(s, 1, Len(s) - 1)) ELSE s

Trim(s) == TrimEnd(TrimStart(s))

\* parseFloat, on this alphabet: skip leading white space, read an optional
\* sign and the longest run of decimal digits; NaN when there is no digit.
NaN == [nan |-> TRUE]

Num(n) == [nan |-> FALSE, n |-> n]

RECURSIVE DigitRun(_)
DigitRun(s) == IF Len(s) > 0 /\ IsDigit(s[1]) THEN 1 + DigitRun(Tail(s)) ELSE 0

RECURSIVE Decimal(_)
Decimal(ds) ==
  IF Len(ds) = 0 THEN 0
  ELSE 10 * Decimal(SubSeq(ds, 1, Len(ds) - 1)) + DigitValue[ds[Len(ds)]]

ParseFloat(s) ==
  LET t == TrimStart(s)
      signed == Len(t) > 0 /\ t[1] \in {"-", "+"}
      body == IF signed THEN Tail(t) ELSE t
      k == DigitRun(body)
  IN IF k = 0 THEN NaN
     ELSE IF signed /\ t[1] = "-" THEN Num(0 - Decimal(SubSeq(body, 1, k)))
     ELSE Num(Decimal(SubSeq(body, 1, k)))

(***************************************************************************)
(* Regular expressions.  RegExp.prototype.test searches the string for a   *)
(* match.  A pattern is a literal, or the pattern of EmailValidator.       *)
(***************************************************************************)
Literal(w) == [kind |-> "literal", lit |-> w]

\* The characters of the alphabet in the class [!#-'*+/-9=?A-Z^-~-].
AtomChars == {"1", "5", "-"}

\* EmailValidator's pattern.  Its quoted local part needs a double quote
\* and its bracketed domain a closing bracket, which the alphabet lacks, so
\* on this alphabet it matches where a character of the class stands on
\* each side of an at-sign.
EmailRegExp == [kind |-> "email"]

Test(re, s) ==
  IF re.kind = "literal"
  THEN \E i \in 0..(Len(s) - Len(re.lit)) : SubSeq(s, i + 1, i + Len(re.lit)) = re.lit
  ELSE \E i \in 2..(Len(s) - 1) :
         s[i] = "@" /\ s[i - 1] \in AtomChars /\ s[i + 1] \in AtomChars

(***************************************************************************)
(* The Validator classes: constructors and validate methods.               *)
(***************************************************************************)
RequiredIgnoringEmpty(m) ==
  [type |-> "Required", errorMessage |-> m, ignoreEmptyValues |-> TRUE]

Required(m) ==
  [type |-> "Required", errorMessage |-> m, ignoreEmptyValues |-> FALSE]

MaxLength(mx, m) ==
  [type |-> "MaxLength", errorMessage |-> m, ignoreEmptyValues |-> TRUE, max |-> mx]

MinLength(mn, m) ==
  [type |-> "MinLength", errorMessage |-> m, ignoreEmptyValues |-> TRUE, min |-> mn]

RangeLength(mn, mx, m) ==
  [type |-> "RangeLength", errorMessage |-> m, ignoreEmptyValues |-> TRUE,
   min |-> mn, max |-> mx]

Range(mn, mx, m) ==
  [type |-> "Range", errorMessage |-> m, ignoreEmptyValues |-> TRUE,
   min |-> mn, max |-> mx]

Pattern(re, m) ==
  [type |-> "Pattern", errorMessage |-> m, ignoreEmptyValues |-> TRUE, pattern |-> re]

Email(m) ==
  [type |-> "Email", errorMessage |-> m, ignoreEmptyValues |-> TRUE,
   pattern |-> EmailRegExp]

RequiredValidate(r, v) == v # Null /\ Len(Trim(v.chars)) > 0

MaxLengthValidate(r, v) == v # Null /\ Len(v.chars) <= r.max

MinLengthValidate(r, v) == v # Null /\ Len(v.chars) >= r.min

RangeLengthValidate(r, v) == v # Null /\ Len(v.chars) >= r.min /\ Len(v.chars) <= r.max

\* parseFloat(null) reads the string "null": NaN.
RangeValidateExclusive(r, v) ==
  LET numericValue == IF v = Null THEN NaN ELSE ParseFloat(v.chars) IN
  v # Null /\ ~numericValue.nan /\ numericValue.n > r.min /\ numericValue.n < r.max

RangeValidate(r, v) ==
  LET numericValue == IF v = Null THEN NaN ELSE ParseFloat(v.chars) IN
  v # Null /\ ~numericValue.nan /\ numericValue.n >= r.min /\ numericValue.n <= r.max

PatternValidate(r, v) == v # Null /\ Test(r.pattern, v.chars)

\* validator.validate(value), dispatched on the instance's class;
\* EmailValidator inherits PatternValidator's method.
RuleValidate(r, v) ==
  CASE r.type = "Required" -> RequiredValidate(r, v)
    [] r.type = "MaxLength" -> MaxLengthValidate(r, v)
    [] r.type = "MinLength" -> MinLengthValidate(r, v)
    [] r.type = "RangeLength" -> RangeLengthValidate(r, v)
    [] r.type = "Range" -> RangeValidate(r, v)
    [] r.type \in {"Pattern", "Email"} -> PatternValidate(r, v)

(***************************************************************************)
(* validator(value, validators).  The function it returns is () => null    *)
(* or () => validator.errorMessage, closed over the rule that failed.      *)
(***************************************************************************)
NullFn == [kind |-> "function", body |-> "null"]

MessageFn(i) == [kind |-> "function", body |-> "errorMessage", rule |-> i]

IsEmptyNoTrim(v) == v = Null \/ Len(v.chars) = 0

IsEmpty(v) == v = Null \/ Len(Trim(v.chars)) = 0

RECURSIVE Scan(_, _, _, _)
Scan(v, rs, isEmpty, i) ==
  IF i > Len(rs) THEN NullFn
  ELSE IF rs[i].ignoreEmptyValues /\ isEmpty THEN NullFn
  ELSE IF ~RuleValidate(rs[i], v) THEN MessageFn(i)
  ELSE Scan(v, rs, isEmpty, i + 1)

RECURSIVE ScanValidateFirst(_, _, _, _)
ScanValidateFirst(v, rs, isEmpty, i) ==
  IF i > Len(rs) THEN NullFn
  ELSE IF ~RuleValidate(rs[i], v) THEN MessageFn(i)
  ELSE IF rs[i].ignoreEmptyValues /\ isEmpty THEN NullFn
  ELSE ScanValidateFirst(v, rs, isEmpty, i + 1)

RECURSIVE ScanSkipContinue(_, _, _, _)
ScanSkipContinue(v, rs, isEmpty, i) ==
  IF i > Len(rs) THEN NullFn
  ELSE IF rs[i].ignoreEmptyValues /\ isEmpty THEN ScanSkipContinue(v, rs, isEmpty, i + 1)
  ELSE IF ~RuleValidate(rs[i], v) THEN MessageFn(i)
  ELSE ScanSkipContinue(v, rs, isEmpty, i + 1)

\* The number of validate(value) calls the loop makes.
RECURSIVE ScanChecks(_, _, _, _)
ScanChecks(v, rs, isEmpty, i) ==
  IF i > Len(rs) THEN 0
  ELSE IF rs[i].ignoreEmptyValues /\ isEmpty THEN 0
  ELSE IF ~RuleValidate(rs[i], v) THEN 1
  ELSE 1 + ScanChecks(v, rs, isEmpty, i + 1)

validatorChecks(v, rs) == ScanChecks(v, rs, IsEmpty(v), 1)

validatorSkipContinue(v, rs) == ScanSkipContinue(v, rs, IsEmpty(v), 1)

validatorValidateFirst(v, rs) == ScanValidateFirst(v, rs, IsEmpty(v), 1)

validator(v, rs) == Scan(v, rs, IsEmpty(v), 1)

\* Calling the returned function: its result, the rules after the call, and
\* the number of validate(value) calls it makes.
InvokeConsuming(f, rs) ==
  IF f.body = "null" THEN [result |-> Null, rules |-> rs, checks |-> 0]
  ELSE [result |-> rs[f.rule].errorMessage,
        rules |-> [rs EXCEPT ![f.rule].errorMessage = Null], checks |-> 0]

InvokeRechecking(f, rs) ==
  IF f.body = "null" THEN [result |-> Null, rules |-> rs, checks |-> 0]
  ELSE [result |-> rs[f.rule].errorMessage, rules |-> rs, checks |-> 1]

Invoke(f, rs) ==
  IF f.body = "null" THEN [result |-> Null, rules |-> rs, checks |-> 0]
  ELSE [result |-> rs[f.rule].errorMessage, rules |-> rs, checks |-> 0]

(***************************************************************************)
(* eventemitter3, restricted to the one event "validate".                  *)
(***************************************************************************)
\* control.on("validate", fn): append to the listener array.
OnFirst(ls, l) == <<l>> \o ls

On(ls, l) == Append(ls, l)

\* control.removeListener("validate", fn): drop every listener whose
\* function is fn.
RemoveListener(ls, l) == SelectSeq(ls, LAMBDA x : ~(x.fld = l.fld /\ x.id = l.id))

\* control.removeAllListeners()
RemoveAllListeners(ls) == <<>>

(***************************************************************************)
(* The closures.  A closure is identified by the field and an id; ids are  *)
(* reused once no listener refers to a closure.                            *)
(***************************************************************************)
UsedIds(ls, f) == {ls[i].id : i \in {j \in 1..Len(ls) : ls[j].fld = f}}

FreshId(ls, f) == CHOOSE n \in 0..MaxListeners :
                    /\ n \notin UsedIds(ls, f)
                    /\ \A m \in 0..MaxListeners : m \notin UsedIds(ls, f) => n <= m

\* No validator: the field is not in the tree.
NoClosure == [id |-> 0, out |-> Null]

\* No subscription: the field's effect is not active.
NoSub == [id |-> -1, out |-> Null]

\* The listener _ForbField's effect builds around the validator prop.
Listener(f, c) == [fld |-> f, id |-> c.id, out |-> c.out]

\* The validator prop of a field is a function that returns (or throws)
\* the same outcome at every call, or the function validator(v, rs)
\* returned, or an arrow function that calls validator on the field's ref
\* and returns the function it gets.
ValidatorFn(v, rs) ==
  [kind |-> "function", fn |-> validator(v, rs), rules |-> rs, value |-> v]

Thunk(rs) == [kind |-> "thunk", rules |-> rs]

\* Calling a function validator(v, rs) returned.
CallFunction(x) == Invoke(x.fn, x.rules).result

\* What the listener's validator returns when it is called now.
Result(l) ==
  CASE l.out.kind = "function" -> CallFunction(l.out)
    [] l.out.kind = "thunk" -> ValidatorFn(refs[l.fld], l.out.rules)
    [] OTHER -> l.out

\* setErrorMessage(x): React takes a function for an updater and stores
\* what it returns.
SetState(x) == IF x.kind = "function" THEN CallFunction(x) ELSE x

\* What a pass records of a listener it invoked.
Call(l) == [fld |-> l.fld, out |-> Result(l)]

(***************************************************************************)
(* One pass of the broadcast.  st is the pass's running state:             *)
(* isValid, err (the errorMessage states), invoked, flags (isValid after   *)
(* each listener that returned), threw.                                    *)
(***************************************************************************)
\* register's wrapper onValidate: call the validator; a truthy result sets
\* the flag to false.
RegisterOnValidateOverwrite(l, st) == [st EXCEPT !.isValid = ~Truthy(Result(l))]

RegisterOnValidateStrings(l, st) ==
  IF Result(l).kind = "string" /\ Truthy(Result(l)) /\ st.isValid
  THEN [st EXCEPT !.isValid = FALSE]
  ELSE st

RegisterOnValidate(l, st) ==
  IF Truthy(Result(l)) /\ st.isValid THEN [st EXCEPT !.isValid = FALSE] ELSE st

\* _ForbField's listener onValidate: setErrorMessage(validator()).  A
\* state update of an unmounted component is dropped by React.
FieldOnValidateKeepError(l, st) ==
  LET st1 == RegisterOnValidate(l, st) IN
  [st1 EXCEPT !.err = IF mounted[l.fld] /\ Truthy(Result(l))
                      THEN [@ EXCEPT ![l.fld] = SetState(Result(l))]
                      ELSE @,
              !.invoked = Append(@, Call(l)),
              !.flags = Append(@, st1.isValid)]

FieldOnValidate(l, st) ==
  LET st1 == RegisterOnValidate(l, st) IN
  [st1 EXCEPT !.err = IF mounted[l.fld]
                      THEN [@ EXCEPT ![l.fld] = SetState(Result(l))]
                      ELSE @,
              !.invoked = Append(@, Call(l)),
              !.flags = Append(@, st1.isValid)]

\* emit("validate"): call the listeners in array order; a listener that
\* throws ends the loop and the exception leaves emit.
RECURSIVE EmitSwallow(_, _, _)
EmitSwallow(ls, i, st) ==
  IF i > Len(ls) THEN st
  ELSE IF ls[i].out = Thrown
       THEN EmitSwallow(ls, i + 1, [st EXCEPT !.invoked = Append(@, Call(ls[i]))])
       ELSE EmitSwallow(ls, i + 1, FieldOnValidate(ls[i], st))

RECURSIVE Emit(_, _, _)
Emit(ls, i, st) ==
  IF i > Len(ls) THEN st
  ELSE IF ls[i].out = Thrown
       THEN [st EXCEPT !.invoked = Append(@, Call(ls[i])), !.threw = TRUE]
       ELSE Emit(ls, i + 1, FieldOnValidate(ls[i], st))

\* The flag at the start of a pass.
ResetKeep == isValid

Reset == TRUE

(***************************************************************************)
(* The coordinator's operations.                                           *)
(***************************************************************************)
Init ==
  /\ isValid = TRUE
  /\ listeners = <<>>
  /\ formMounted = TRUE
  /\ formEffect = TRUE
  /\ mounted = [f \in Fields |-> FALSE]
  /\ cur = [f \in Fields |-> NoClosure]
  /\ sub = [f \in Fields |-> NoSub]
  /\ errorMessage = [f \in Fields |-> Null]
  /\ ret = "none"
  /\ refs = [f \in Fields |-> Str(<<>>)]
  /\ pass = NoPass
  /\ value = Null
  /\ rules = <<>>
  /\ fn = NoFn
  /\ result = NoFn
  /\ calls = 0
  /\ checks = 0

\* The effects React has yet to run for the commits so far.  useEffect
\* bodies and cleanups run after the commit that calls for them: a cleanup
\* when the binding left the tree or was rendered with a new validator, a
\* body when the binding is in the tree with no subscription.
CleanupDue(f) == sub[f] # NoSub /\ (~mounted[f] \/ sub[f] # cur[f])

SubscribeDue(f) == mounted[f] /\ sub[f] = NoSub

FormCleanupDue == ~formMounted /\ formEffect

EffectsDue ==
  \/ FormCleanupDue
  \/ \E f \in Fields : CleanupDue(f) \/ SubscribeDue(f)

\* validate()
Validate ==
  /\ LET st0 == [isValid |-> Reset, err |-> errorMessage, invoked |-> <<>>,
                 flags |-> <<>>, threw |-> FALSE]
         st == Emit(listeners, 1, st0)
     IN /\ isValid' = st.isValid
        /\ errorMessage' = st.err
        /\ pass' = [ran |-> TRUE, invoked |-> st.invoked, flags |-> st.flags, prev |-> isValid,
                    cleared |-> {f \in Fields : errorMessage[f] # Null /\ st.err[f] = Null}]
        /\ ret' = IF st.threw THEN "threw" ELSE IF st.isValid THEN "true" ELSE "false"
  /\ UNCHANGED <<listeners, formMounted, formEffect, mounted, cur, sub>>
  /\ UNCHANGED evalVars
  /\ UNCHANGED refs

\* What a render of the form does with a field: it leaves the binding as it
\* is (the component that registers it does not render), it renders no
\* binding for it, or it calls register() with a validator.
Keep == [kind |-> "keep"]

Absent == [kind |-> "absent"]

Plans(O) == [Fields -> O \cup {Keep, Absent}]

\* A commit of React: every change of a render is applied at once.  A field
\* registered while out of the tree mounts with errorMessage = null; a
\* mounted field registered again gets a new wrapper, register() builds one
\* at every call; a mounted field not rendered leaves the tree and its
\* errorMessage state is discarded.  No effect runs in the commit, and
\* React runs the effects of a commit before it renders again.
Commit(plan) ==
  /\ formMounted
  /\ ~EffectsDue
  /\ \E f \in Fields : plan[f] # Keep
  /\ \A f \in Fields : plan[f] = Absent => mounted[f]
  /\ mounted' = [f \in Fields |-> IF plan[f] = Keep THEN mounted[f] ELSE plan[f] # Absent]
  /\ cur' = [f \in Fields |->
              IF plan[f] = Keep THEN cur[f]
              ELSE IF plan[f] = Absent THEN NoClosure
              ELSE [id |-> FreshId(listeners, f), out |-> plan[f]]]
  /\ errorMessage' = [f \in Fields |->
                       IF plan[f] = Keep \/ (plan[f] # Absent /\ mounted[f])
                       THEN errorMessage[f]
                       ELSE Null]
  /\ pass' = NoPass
  /\ ret' = "none"
  /\ UNCHANGED <<isValid, listeners, formMounted, formEffect, sub>>
  /\ UNCHANGED evalVars
  /\ UNCHANGED refs

\* A commit that removes the component that called useForb from the tree,
\* and with it the fields it renders.
UnmountForm ==
  /\ formMounted
  /\ ~EffectsDue
  /\ formMounted' = FALSE
  /\ mounted' = [f \in Fields |-> FALSE]
  /\ cur' = [f \in Fields |-> NoClosure]
  /\ errorMessage' = [f \in Fields |-> Null]
  /\ pass' = NoPass
  /\ ret' = "none"
  /\ UNCHANGED <<isValid, listeners, formEffect, sub>>
  /\ UNCHANGED evalVars
  /\ UNCHANGED refs

\* The cleanup of _ForbField's effect: control.removeListener of the
\* listener the effect subscribed.  The code fixes no order among the
\* cleanups a commit calls for: any pending one may run next.
Cleanup(f) ==
  /\ CleanupDue(f)
  /\ listeners' = RemoveListener(listeners, Listener(f, sub[f]))
  /\ sub' = [sub EXCEPT ![f] = NoSub]
  /\ pass' = NoPass
  /\ ret' = "none"
  /\ UNCHANGED <<isValid, formMounted, formEffect, mounted, cur, errorMessage>>
  /\ UNCHANGED evalVars
  /\ UNCHANGED refs

\* The body of _ForbField's effect: control.on of a listener around the
\* validator of the latest render.  React runs the cleanups a commit calls
\* for before the bodies.
Subscribe(f) ==
  /\ SubscribeDue(f)
  /\ \A g \in Fields : ~CleanupDue(g)
  /\ \A g \in Fields : g < f => ~SubscribeDue(g)
  /\ LET c == [cur[f] EXCEPT !.id = FreshId(listeners, f)] IN
       /\ listeners' = On(listeners, Listener(f, c))
       /\ sub' = [sub EXCEPT ![f] = c]
       /\ cur' = [cur EXCEPT ![f] = c]
  /\ pass' = NoPass
  /\ ret' = "none"
  /\ UNCHANGED <<isValid, formMounted, formEffect, mounted, errorMessage>>
  /\ UNCHANGED evalVars
  /\ UNCHANGED refs

\* The cleanup of useForb's effect.
FormCleanup ==
  /\ FormCleanupDue
  /\ listeners' = RemoveAllListeners(listeners)
  /\ formEffect' = FALSE
  /\ pass' = NoPass
  /\ ret' = "none"
  /\ UNCHANGED <<isValid, formMounted, mounted, cur, sub, errorMessage>>
  /\ UNCHANGED evalVars
  /\ UNCHANGED refs

Next ==
  \/ Validate
  \/ \E plan \in Plans(Returning) : Commit(plan)
  \/ \E f \in Fields : Cleanup(f)
  \/ \E f \in Fields : Subscribe(f)
  \/ UnmountForm
  \/ FormCleanup

Spec == Init /\ [][Next]_vars

NextThrow ==
  \/ Validate
  \/ \E plan \in Plans(Throwing) : Commit(plan)
  \/ \E f \in Fields : Cleanup(f)
  \/ \E f \in Fields : Subscribe(f)
  \/ UnmountForm
  \/ FormCleanup

SpecThrow == Init /\ [][NextThrow]_vars

(***************************************************************************)
(* The evaluator applied to bounded inputs.                                *)
(***************************************************************************)
Msg(c) == Str(<<c>>)

Catalog ==
  {Required(Msg("R")), MaxLength(2, Msg("X")), MinLength(8, Msg("M")),
   MinLength(2, Msg("N")), RangeLength(2, 3, Msg("L")), Range(1, 10, Msg("G")),
   Pattern(Literal(<<"5">>), Msg("P")), Email(Msg("E"))}

RangeBounds == {-5, 1, 5, 10}

RuleLists ==
  UNION {[1..k -> Catalog] : k \in 0..MaxRules}
    \cup {<<Range(mn, mx, Msg("G"))>> : mn \in RangeBounds, mx \in RangeBounds}

InitEval ==
  /\ isValid = TRUE
  /\ listeners = <<>>
  /\ formMounted = TRUE
  /\ formEffect = TRUE
  /\ mounted = [f \in Fields |-> FALSE]
  /\ cur = [f \in Fields |-> NoClosure]
  /\ sub = [f \in Fields |-> NoSub]
  /\ errorMessage = [f \in Fields |-> Null]
  /\ ret = "none"
  /\ refs = [f \in Fields |-> Str(<<>>)]
  /\ pass = NoPass
  /\ value \in Values
  /\ rules \in RuleLists
  /\ fn = NoFn
  /\ result = NoFn
  /\ calls = 0
  /\ checks = 0

\* fn = validator(value, rules)
CallValidator ==
  /\ fn = NoFn
  /\ fn' = validator(value, rules)
  /\ checks' = checks + validatorChecks(value, rules)
  /\ UNCHANGED <<value, rules, result, calls>>
  /\ UNCHANGED coordVars

\* fn()
CallFn ==
  /\ fn # NoFn
  /\ calls < MaxCalls
  /\ LET r == Invoke(fn, rules) IN
       /\ result' = r.result
       /\ rules' = r.rules
       /\ checks' = checks + r.checks
  /\ calls' = calls + 1
  /\ UNCHANGED <<value, fn>>
  /\ UNCHANGED coordVars

NextEval == CallValidator \/ CallFn

SpecEval == InitEval /\ [][NextEval]_vars

(***************************************************************************)
(* The form of the README: fields registered with rule validators over    *)
(* values the form keeps in refs.                                          *)
(***************************************************************************)
\* The values an input can hold: empty, "1@5" (a well-formed address, too
\* short for a password) and "15151515" (long enough, not an address).
RefValues ==
  {Str(<<>>), Str(<<"1", "@", "5">>), Str(<<"1", "5", "1", "5", "1", "5", "1", "5">>)}

EmailRules == <<Required(Msg("R")), Email(Msg("E"))>>

PasswordRules == <<Required(Msg("R")), MinLength(8, Msg("M"))>>

\* The validator prop, built while the form renders: the email field passes
\* () => validator(email.current, rules), the password field passes
\* validator(password.current, rules).
ValidatorProp(style, v) ==
  IF style = "thunk" THEN Thunk(EmailRules) ELSE ValidatorFn(v, PasswordRules)

\* The form's fields in tree order: an email field first, a password field
\* second, and so on in turn.
StyleOf(f) == IF f % 2 = 1 THEN "thunk" ELSE "function"

\* App renders: register() is called for every field, at the first render
\* and at every later one.
RenderApp == Commit([f \in Fields |-> ValidatorProp(StyleOf(f), refs[f])])

\* onChange: the input's value is stored in the ref; nothing renders.
ChangeValue(f, v) ==
  /\ formMounted
  /\ mounted[f]
  /\ v # refs[f]
  /\ refs' = [refs EXCEPT ![f] = v]
  /\ pass' = NoPass
  /\ ret' = "none"
  /\ UNCHANGED <<isValid, listeners, formMounted, formEffect, mounted, cur, sub, errorMessage>>
  /\ UNCHANGED evalVars

NextForm ==
  \/ Validate
  \/ RenderApp
  \/ \E f \in Fields, v \in RefValues : ChangeValue(f, v)
  \/ \E f \in Fields : Cleanup(f)
  \/ \E f \in Fields : Subscribe(f)
  \/ UnmountForm
  \/ FormCleanup

SpecForm == Init /\ [][NextForm]_vars

(***************************************************************************)
(* Claims about the coordinator, checked under Spec and SpecThrow.         *)
(***************************************************************************)
\* The calls of a pass, and whether a call's validator returned a message.
Calls == {pass.invoked[i] : i \in 1..Len(pass.invoked)}

\* C1: a validate() pass that completes without an exception returns false
\* if and only if some subscribed field's validator returned a non-none
\* error message (any string, the empty string included) during the pass.
C1_FalseIffSomeMessage ==
  (pass.ran /\ ret \in {"true", "false"}) =>
    ((ret = "false") <=> (\E c \in Calls : c.out # Null))

\* C2: validity resets on each call: the result of a completed pass is
\* decided by the validator results of that pass alone, whatever the pass
\* before it returned; a pass in which every field passes returns true even
\* right after a pass that returned false.
C2_ValidityResets ==
  [][(pass'.ran /\ ret' \in {"true", "false"}) =>
       /\ (ret' = "false") <=> (\E i \in 1..Len(pass'.invoked) : Truthy(pass'.invoked[i].out))
       /\ (\A i \in 1..Len(listeners) : ~Truthy(listeners[i].out)) => ret' = "true"]_vars

\* A pass over at least one field returned true although the flag was false
\* from the pass before it.
C2_Witness ==
  pass.ran /\ ~pass.prev /\ ret = "true" /\ Len(pass.invoked) > 0

\* C3: once a field binding has left the tree, a validate() call does not
\* invoke its validator, and returns false only when the validator of a
\* binding in the tree fails.
C3_TornDownNotInvoked ==
  [][pass'.ran =>
       /\ \A i \in 1..Len(pass'.invoked) : mounted[pass'.invoked[i].fld]
       /\ ret' = "false" =>
            \E i \in 1..Len(pass'.invoked) :
              mounted[pass'.invoked[i].fld] /\ Truthy(pass'.invoked[i].out)]_vars

\* C8: when a subscribed validator throws, validate() returns no boolean:
\* the exception leaves it.  The listeners before the first throwing one
\* were invoked in order and their bindings hold the results they computed;
\* the throwing binding and every binding subscribed after it keep their
\* previous error message, and the later ones were not invoked.
C8_ThrowAbortsPass ==
  [][pass'.ran =>
       LET n == Len(pass'.invoked) IN
       /\ (ret' = "threw") <=> (\E i \in 1..Len(listeners) : listeners[i].out = Thrown)
       /\ ret' = "threw" =>
            /\ n >= 1 /\ n <= Len(listeners)
            /\ listeners[n].out = Thrown
            /\ \A i \in 1..n : pass'.invoked[i] = Call(listeners[i])
            /\ \A i \in 1..(n - 1) :
                 /\ listeners[i].out # Thrown
                 /\ mounted[listeners[i].fld] =>
                      errorMessage'[listeners[i].fld] = listeners[i].out
            /\ \A i \in n..Len(listeners) :
                 errorMessage'[listeners[i].fld] = errorMessage[listeners[i].fld]]_vars

\* A pass threw at its first listener, and the binding subscribed after it
\* still shows the message of an earlier pass although its validator now
\* returns none.
C8_Witness ==
  /\ pass.ran /\ ret = "threw"
  /\ Len(pass.invoked) = 1 /\ Len(listeners) = 2
  /\ listeners[2].out = Null
  /\ errorMessage[listeners[2].fld] = Str(<<"E">>)

\* C9: from the commit that unmounts the form on, the broadcast channel has
\* no listener, whatever cleanups of the form and of the field bindings have
\* run so far, and a validate() call invokes no validator and changes no
\* error message.
C9_UnmountReleasesAll ==
  [][/\ ~formMounted' => Len(listeners') = 0
     /\ (~formMounted /\ pass'.ran) =>
          /\ pass'.invoked = <<>>
          /\ errorMessage' = errorMessage]_vars

\* C11: within a pass the flag starts from true and the wrappers only move
\* it from true to false: once false it is false after every later
\* listener of the pass.  A step that is not a validate() call (a mount, a
\* render that resubscribes, an unmount, a cleanup) leaves the flag as it is.
C11_FlagOneWay ==
  [][/\ pass'.ran =>
          \A i \in 1..Len(pass'.flags) :
            LET before == IF i = 1 THEN TRUE ELSE pass'.flags[i - 1] IN
            /\ ~before => ~pass'.flags[i]
            /\ (before /\ ~Truthy(pass'.invoked[i].out)) => pass'.flags[i]
     /\ ~pass'.ran => isValid' = isValid]_vars

\* A pass whose first field failed and whose second field passed returned
\* false.
C11_Witness ==
  /\ pass.ran /\ ret = "false" /\ Len(pass.flags) = 2
  /\ pass.invoked[1].out = Str(<<"E">>) /\ pass.invoked[2].out = Null
  /\ pass.flags = <<FALSE, FALSE>>

\* C12: in every state every binding in the tree has exactly one listener
\* on the channel, the one built around the validator of its latest
\* committed render, and a binding out of the tree has none.
C12_OneListenerEach ==
  \A f \in Fields :
    LET mine == {i \in 1..Len(listeners) : listeners[i].fld = f} IN
    IF mounted[f]
    THEN Cardinality(mine) = 1 /\ \A i \in mine : listeners[i] = Listener(f, cur[f])
    ELSE mine = {}

\* C13: after a validate() pass that completes without an exception the
\* errorMessage of every binding on the channel is exactly what its
\* validator returned in the pass, none included; a step that is not a
\* validate() call changes the errorMessage of no binding that stays mounted.
C13_ErrorMessageIsResult ==
  [][/\ (pass'.ran /\ ret' \in {"true", "false"}) =>
          /\ Len(pass'.invoked) = Len(listeners)
          /\ \A i \in 1..Len(listeners) :
               mounted[listeners[i].fld] =>
                 errorMessage'[listeners[i].fld] = pass'.invoked[i].out
     /\ ~pass'.ran =>
          \A f \in Fields : (mounted[f] /\ mounted'[f]) => errorMessage'[f] = errorMessage[f]]_vars

\* After a pass that had found a failure, a pass over both bindings
\* returned true and cleared the message a binding was showing: no binding
\* shows a message now.
C13_Witness ==
  /\ pass.ran /\ ~pass.prev /\ ret = "true"
  /\ Len(pass.invoked) = 2
  /\ pass.cleared # {}
  /\ \A f \in pass.cleared :
       \E i \in 1..Len(pass.invoked) : pass.invoked[i].fld = f /\ pass.invoked[i].out = Null
  /\ \A f \in Fields : mounted[f] /\ errorMessage[f] = Null

\* C15: a subscription is added behind the listeners already on the
\* channel, whose order it keeps; a validate() pass that completes without
\* an exception has called every listener on the channel exactly once, in
\* that order, by the time validate() returns.
C15_EachOnceInOrder ==
  [][/\ (pass'.ran /\ ret' \in {"true", "false"}) =>
          pass'.invoked = [i \in 1..Len(listeners) |-> Call(listeners[i])]
     /\ (~pass'.ran /\ listeners' # listeners /\ Len(listeners') >= Len(listeners)) =>
          LET l == listeners'[Len(listeners')] IN
          /\ l = Listener(l.fld, cur'[l.fld])
          /\ listeners' = Append(listeners, l)]_vars

\* A completed pass called the second field's validator before the first
\* field's: the second field had subscribed first.
C15_Witness ==
  /\ pass.ran /\ ret \in {"true", "false"}
  /\ Len(pass.invoked) = 2
  /\ pass.invoked[1].fld = 2 /\ pass.invoked[2].fld = 1

(***************************************************************************)
(* Claims about the README's form, checked under SpecForm.                 *)
(***************************************************************************)
\* What the rules R yield for the value v: the first rule's message at which
\* the check of v fails, none when an ignoring rule meets an empty v first.
Judged(v, R) ==
  LET empty == v = Null \/ \A i \in 1..Len(v.chars) : v.chars[i] = " "
      stop == {i \in 1..Len(R) : (R[i].ignoreEmptyValues /\ empty) \/ ~RuleValidate(R[i], v)} IN
  IF stop = {} THEN Null
  ELSE LET i == CHOOSE k \in stop : \A j \in stop : k <= j IN
       IF R[i].ignoreEmptyValues /\ empty THEN Null ELSE R[i].errorMessage

\* C16: a field registered with validator: validator(value, rules) is judged
\* by a pass on the value its ref held at the latest committed render: the
\* pass gives the field the message the rules yield for that value, and
\* returns false when that is a message, whatever the ref holds by then.
C16_JudgesRenderedValue ==
  [][pass'.ran =>
       \A f \in Fields :
         (mounted[f] /\ cur[f].out.kind = "function") =>
           LET m == Judged(cur[f].out.value, PasswordRules) IN
           /\ errorMessage'[f] = m
           /\ m # Null => ret' = "false"]_vars

\* C18: a field registered with validator: () => validator(value, rules)
\* hands the wrapper a function, which is truthy: every pass that reaches
\* such a field returns false, also when the value satisfies all the rules
\* and the field shows no message.
C18_FunctionResultFails ==
  [][pass'.ran =>
       \A i \in 1..Len(listeners) :
         listeners[i].out.kind = "thunk" =>
           /\ pass'.invoked[i].out.kind = "function"
           /\ pass'.flags[i] = FALSE
           /\ ret' = "false"
           /\ mounted[listeners[i].fld] =>
                errorMessage'[listeners[i].fld] = Judged(refs[listeners[i].fld], EmailRules)]_vars

\* Both fields of the form were called and no validator returned a message:
\* the email field holds the well-formed "1@5" and shows no message, and
\* the pass returned false.
C18_Witness ==
  /\ pass.ran /\ ret = "false"
  /\ Len(pass.invoked) = NumFields
  /\ \A i \in 1..Len(pass.invoked) : pass.invoked[i].out.kind # "string"
  /\ listeners[1].out.kind = "thunk"
  /\ mounted[listeners[1].fld]
  /\ refs[listeners[1].fld] = Str(<<"1", "@", "5">>)
  /\ errorMessage[listeners[1].fld] = Null

(***************************************************************************)
(* Claims about the rule evaluator, checked under SpecEval.                *)
(***************************************************************************)
\* A value is empty: none, or a string of white space only.
EmptyValue(v) == v = Null \/ \A i \in 1..Len(v.chars) : v.chars[i] = " "

\* The rules at which a scan of R for v stops.
Stops(v, R) ==
  {i \in 1..Len(R) : (R[i].ignoreEmptyValues /\ EmptyValue(v)) \/ ~RuleValidate(R[i], v)}

Expected(v, R) ==
  IF Stops(v, R) = {} THEN Null
  ELSE LET i == CHOOSE k \in Stops(v, R) : \A j \in Stops(v, R) : k <= j IN
       IF R[i].ignoreEmptyValues /\ EmptyValue(v) THEN Null ELSE R[i].errorMessage

\* C4: validator(v, R)() is the outcome of the first rule of R, in list
\* order, that ignores empty values while v is empty (none) or whose
\* validate(v) is false (its error message); none when there is no such rule.
C4_FirstStoppingRule == calls > 0 => result = Expected(value, rules)

\* The scan passed Required and stopped at the second rule, MinLength.
C4_Witness ==
  /\ calls > 0
  /\ value = Str(<<"1">>)
  /\ rules = <<Required(Msg("R")), MinLength(8, Msg("M"))>>
  /\ result = Msg("M")

\* C5: for an empty value and a rule list whose first rule is Required,
\* validator(v, rules)() is Required's message, whatever rules follow.
C5_RequiredFirst ==
  (calls > 0 /\ EmptyValue(value) /\ Len(rules) >= 1 /\ rules[1].type = "Required")
    => result = rules[1].errorMessage

\* evaluate(none, [Required("R"), MinLength(8, "M")])() returned "R".
C5_Witness ==
  /\ calls > 0
  /\ value = Null
  /\ rules = <<Required(Msg("R")), MinLength(8, Msg("M"))>>
  /\ result = Msg("R")

\* C6: for an empty value and a rule list whose first rule is one of
\* MaxLength, MinLength, RangeLength, Range, Pattern and Email,
\* validator(v, rules)() is none.
C6_EmptySkip ==
  (/\ calls > 0 /\ EmptyValue(value) /\ Len(rules) >= 1
   /\ rules[1].type \in {"MaxLength", "MinLength", "RangeLength", "Range", "Pattern", "Email"})
    => result = Null

\* evaluate(" ", [MinLength(8, "M"), Required("R")])() returned none.
C6_Witness ==
  /\ calls > 0
  /\ value = Str(<<" ">>)
  /\ rules = <<MinLength(8, Msg("M")), Required(Msg("R"))>>
  /\ result = Null

\* The decimal numeral of an integer.
DigitChar == <<"0", "1", "2", "3", "4", "5", "6", "7", "8", "9">>

RECURSIVE Numeral(_)
Numeral(n) ==
  IF n < 0 THEN <<"-">> \o Numeral(0 - n)
  ELSE IF n < 10 THEN <<DigitChar[n + 1]>>
  ELSE Numeral(n \div 10) \o <<DigitChar[(n % 10) + 1]>>

\* s reads as the number n: after leading white space stands the numeral
\* of n, and no digit follows it.
ParsesAs(s, n) ==
  \E i \in 0..Len(s) :
    /\ \A k \in 1..i : s[k] = " "
    /\ LET w == Numeral(n)
           j == i + Len(w)
       IN /\ j <= Len(s)
          /\ SubSeq(s, i + 1, j) = w
          /\ j = Len(s) \/ ~IsDigit(s[j + 1])

\* The numbers a string of the alphabet can read as.
Numbers ==
  LET ds == UNION {[1..k -> {"1", "5"}] : k \in 1..MaxLen} IN
  {Decimal(d) : d \in ds} \cup {0 - Decimal(d) : d \in ds}

\* C7: for a non-empty string v, validator(v, [Range(min, max, m)])() is
\* none exactly when v parses as a number n with min <= n <= max, and is
\* m otherwise.
C7_RangeInclusive ==
  (/\ calls > 0 /\ value # Null /\ ~EmptyValue(value)
   /\ Len(rules) = 1 /\ rules[1].type = "Range")
    => result = IF \E n \in Numbers :
                     /\ ParsesAs(value.chars, n)
                     /\ rules[1].min <= n /\ n <= rules[1].max
                THEN Null
                ELSE rules[1].errorMessage

\* evaluate("15", [Range(1, 10, m)])() returned m.
C7_Witness ==
  /\ calls > 0
  /\ value = Str(<<"1", "5">>)
  /\ rules = <<Range(1, 10, Msg("G"))>>
  /\ result = Msg("G")

\* C10: every call of the function validator(v, R) returned gives the
\* result of the call before it, and changes neither the rules nor the
\* value nor the function.
C10_Idempotent ==
  [][calls' = calls + 1 =>
       /\ calls >= 1 => result' = result
       /\ rules' = rules
       /\ value' = value
       /\ fn' = fn
       /\ UNCHANGED coordVars]_vars

\* The returned function was called twice and returned a rule's message.
C10_Witness == calls >= 2 /\ result = Msg("M") /\ fn = MessageFn(2)

\* The number of rules a scan of R for v hands to validate(v): the rules
\* before the stopping rule, and the stopping rule when it stops by failing.
Scanned(v, R) ==
  IF Stops(v, R) = {} THEN Len(R)
  ELSE LET i == CHOOSE k \in Stops(v, R) : \A j \in Stops(v, R) : k <= j IN
       IF R[i].ignoreEmptyValues /\ EmptyValue(v) THEN i - 1 ELSE i

\* C14 as stated: calling validator(value, rules) runs no rule's
\* validate(value); the checks run when the returned function is invoked.
C14_ChecksDeferred ==
  [][/\ (fn = NoFn /\ fn' # NoFn) => checks' = checks
     /\ (calls = 0 /\ calls' = 1) => checks' = checks + Scanned(value, rules)]_vars

\* C14 amended: the rules' validate(value) checks run at the moment
\* validator(value, rules) is called; invoking the function it returned
\* runs none, it yields the outcome decided by then.
C14_ChecksAtCall ==
  [][/\ (fn = NoFn /\ fn' # NoFn) => checks' = checks + Scanned(value, rules)
     /\ calls' = calls + 1 => checks' = checks]_vars

\* validator("1", [Required, MinLength(8)]) ran both checks, and the
\* function it returned has been called since with no further check.
C14_Witness ==
  /\ calls >= 1 /\ checks = 2
  /\ value = Str(<<"1">>)
  /\ rules = <<Required(Msg("R")), MinLength(8, Msg("M"))>>
  /\ result = Msg("M")

\* The scan of R for v gets as far as rule i.
Reached(v, R, i) ==
  \A k \in 1..(i - 1) : ~(R[k].ignoreEmptyValues /\ EmptyValue(v)) /\ RuleValidate(R[k], v)

Reverse(R) == [i \in 1..Len(R) |-> R[Len(R) + 1 - i]]

\* C17: for an empty value and a rule list in which the scan reaches a rule
\* with ignoreEmptyValues = true placed before a Required rule, the Required
\* rule's validate is never run and validator(v, rules)() returns none; with
\* just these two rules, the reversed list yields Required's message instead.
C17_SkipBeforeRequired ==
  \A i \in 1..Len(rules) : \A j \in (i + 1)..Len(rules) :
    (/\ fn # NoFn
     /\ EmptyValue(value)
     /\ rules[i].ignoreEmptyValues
     /\ rules[j].type = "Required"
     /\ Reached(value, rules, i))
      => /\ checks < j
         /\ fn = NullFn
         /\ calls > 0 => result = Null
         /\ Len(rules) = 2 =>
              Invoke(validator(value, Reverse(rules)), Reverse(rules)).result
                = rules[j].errorMessage

\* validator("", [MinLength(8, "M"), Required("R")])() returned none and no
\* rule was checked.
C17_Witness ==
  /\ calls > 0
  /\ checks = 0
  /\ value = Str(<<>>)
  /\ rules = <<MinLength(8, Msg("M")), Required(Msg("R"))>>
  /\ result = Null

====
